---- MODULE Spec2Model ----
(***************************************************************************)
(* Model of the Vastu floor plan generator                                 *)
(* (src/Floor Plan Generator/src/components/FloorPlanGenerator.tsx).       *)
(*                                                                         *)
(* The component keeps three pieces of React state: plotDimensions, rooms  *)
(* and newRoom (the draft).  Every event handler runs to completion on the *)
(* single UI thread, so each handler is one atomic action.  Numbers typed  *)
(* into the numeric fields are drawn from small sets of naturals.  Room    *)
(* ids are strings, built and compared as the code builds and compares     *)
(* them (decimal conversion, concatenation, startsWith).                   *)
(***************************************************************************)
EXTENDS Integers, Sequences, FiniteSets

VARIABLES
    plotDimensions,   \* useState<PlotDimensions>
    rooms,            \* useState<Room[]>
    newRoom,          \* useState draft of the next room
    lastOp,           \* history: the handler that ran last (removeRoom with its id)
    before,           \* history: the program state in which that handler ran
    count,            \* history: how many of the steps that a specification limits were taken
    placed            \* last call of getPositionForDirection made on its own

vars == <<plotDimensions, rooms, newRoom, lastOp, before, count, placed>>

-----------------------------------------------------------------------------
(* Bounds *)

\* handlers run in one behaviour of Spec
MaxSteps == 6
\* registry size up to which SpecIds offers addRoom
MaxIdRooms == 10
\* removeRoom calls in one behaviour of SpecIds
MaxIdRemovals == 1
\* SpecPlace tries the plot and room dimensions 0..MaxDim
MaxDim == 5

-----------------------------------------------------------------------------
(* Rule catalog *)

VASTU_RULES ==
    [ master_bedroom |->
        [ direction |-> "southwest",
          defaultSize |-> [length |-> 12, width |-> 15],
          description |-> "Master bedroom should be in the Southwest direction for stability and peace.",
          preferences |-> [hasAttachedWashroom |-> TRUE] ],
      bedroom |->
        [ direction |-> "west",
          defaultSize |-> [length |-> 10, width |-> 12],
          description |-> "Additional bedrooms should be in the West direction.",
          preferences |-> [hasAttachedWashroom |-> FALSE] ],
      kitchen |->
        [ direction |-> "southeast",
          defaultSize |-> [length |-> 8, width |-> 10],
          description |-> "Kitchen should be in the Southeast direction for positive energy while cooking.",
          preferences |-> [isOpen |-> FALSE] ],
      pooja_room |->
        [ direction |-> "northeast",
          defaultSize |-> [length |-> 6, width |-> 6],
          description |-> "Pooja room should be in the Northeast direction for spiritual growth." ],
      bathroom |->
        [ direction |-> "northwest",
          defaultSize |-> [length |-> 5, width |-> 5],
          description |-> "Bathroom should be in the Northwest direction." ],
      living_room |->
        [ direction |-> "north",
          defaultSize |-> [length |-> 15, width |-> 12],
          description |-> "Living room should be in the North or East direction for prosperity.",
          preferences |-> [isCombined |-> FALSE] ],
      dining_room |->
        [ direction |-> "east",
          defaultSize |-> [length |-> 10, width |-> 12],
          description |-> "Dining room should be in the East direction for harmonious meals.",
          preferences |-> [isCombined |-> FALSE] ],
      staircase |->
        [ direction |-> "south",
          defaultSize |-> [length |-> 6, width |-> 10],
          description |-> "Staircase should be in the South or West direction for positive energy flow.",
          preferences |-> [isInside |-> TRUE] ],
      common_area |->
        [ direction |-> "north",
          defaultSize |-> [length |-> 20, width |-> 15],
          description |-> "Combined living and dining area should be in the North direction." ] ]

\* the options of the type selector: every catalog key except common_area
SelectableTypes == DOMAIN VASTU_RULES \ {"common_area"}

\* vastuRule.preferences?.flag !== undefined
RuleDeclares(type, flag) ==
    /\ "preferences" \in DOMAIN VASTU_RULES[type]
    /\ flag \in DOMAIN VASTU_RULES[type].preferences

\* vastuRule.preferences?.flag ?? dflt
RulePreference(type, flag, dflt) ==
    IF RuleDeclares(type, flag) THEN VASTU_RULES[type].preferences[flag] ELSE dflt

-----------------------------------------------------------------------------
(* Placement function *)

\* Math.floor(n / 4) on an integer n
FloorQuarter(n) == n \div 4

\* a variant that keeps the room inside the plot by clamping at 0
getPositionClamped(direction, plot, roomSize) ==
    LET AtLeast0(n) == IF n < 0 THEN 0 ELSE n
    IN  CASE direction = "northeast" -> [x |-> 0, y |-> 0]
          [] direction = "north"     -> [x |-> FloorQuarter(plot.width), y |-> 0]
          [] direction = "northwest" -> [x |-> AtLeast0(plot.width - roomSize.width), y |-> 0]
          [] direction = "east"      -> [x |-> 0, y |-> FloorQuarter(plot.length)]
          [] direction = "southeast" -> [x |-> 0, y |-> AtLeast0(plot.length - roomSize.length)]
          [] direction = "south"     -> [x |-> FloorQuarter(plot.width),
                                         y |-> AtLeast0(plot.length - roomSize.length)]
          [] direction = "southwest" -> [x |-> AtLeast0(plot.width - roomSize.width),
                                         y |-> AtLeast0(plot.length - roomSize.length)]
          [] direction = "west"      -> [x |-> AtLeast0(plot.width - roomSize.width),
                                         y |-> FloorQuarter(plot.length)]
          [] OTHER                   -> [x |-> 0, y |-> 0]

getPositionForDirection(direction, plot, roomSize) ==
    CASE direction = "northeast" -> [x |-> 0, y |-> 0]
      [] direction = "north"     -> [x |-> FloorQuarter(plot.width), y |-> 0]
      [] direction = "northwest" -> [x |-> plot.width - roomSize.width, y |-> 0]
      [] direction = "east"      -> [x |-> 0, y |-> FloorQuarter(plot.length)]
      [] direction = "southeast" -> [x |-> 0, y |-> plot.length - roomSize.length]
      [] direction = "south"     -> [x |-> FloorQuarter(plot.width),
                                     y |-> plot.length - roomSize.length]
      [] direction = "southwest" -> [x |-> plot.width - roomSize.width,
                                     y |-> plot.length - roomSize.length]
      [] direction = "west"      -> [x |-> plot.width - roomSize.width,
                                     y |-> FloorQuarter(plot.length)]
      [] OTHER                   -> [x |-> 0, y |-> 0]

-----------------------------------------------------------------------------
(* Room ids *)

Digits == <<"0", "1", "2", "3", "4", "5", "6", "7", "8", "9">>

\* Number.prototype.toString() on a positive integer: its decimal digits
RECURSIVE toString(_)
toString(n) ==
    IF n < 10 THEN Digits[n + 1]
    ELSE toString(n \div 10) \o Digits[(n % 10) + 1]

\* String.prototype.startsWith
startsWith(s, prefix) ==
    /\ Len(prefix) <= Len(s)
    /\ SubSeq(s, 1, Len(prefix)) = prefix

-----------------------------------------------------------------------------
(* Initial state: the useState initialisers *)

NoCall == [called |-> FALSE]

\* the program state a handler runs in, kept in before for the next state
Snapshot == [plotDimensions |-> plotDimensions, rooms |-> rooms, newRoom |-> newRoom]

InitState ==
    /\ plotDimensions = [length |-> 50, width |-> 30]
    /\ rooms = << >>
    /\ newRoom = [ type |-> "master_bedroom",
                   length |-> VASTU_RULES.master_bedroom.defaultSize.length,
                   width |-> VASTU_RULES.master_bedroom.defaultSize.width,
                   preferences |-> [ hasAttachedWashroom |-> TRUE,
                                     isOpen |-> FALSE,
                                     isInside |-> TRUE,
                                     isCombined |-> FALSE ] ]
    /\ lastOp = <<"init">>
    /\ before = Snapshot
    /\ count = 0

Init == InitState /\ placed = NoCall

-----------------------------------------------------------------------------
(* Handlers *)

\* onChange of the plot length field
setPlotLength(v) ==
    /\ plotDimensions' = [plotDimensions EXCEPT !.length = v]
    /\ lastOp' = <<"setPlotLength">>
    /\ before' = Snapshot
    /\ UNCHANGED <<rooms, newRoom, placed>>

\* a variant that places the rooms of the registry again in the new plot
setPlotWidthReplacing(v) ==
    /\ plotDimensions' = [plotDimensions EXCEPT !.width = v]
    /\ rooms' = [ i \in DOMAIN rooms |->
                    [rooms[i] EXCEPT !.position =
                        getPositionForDirection(rooms[i].direction, plotDimensions', rooms[i].size)] ]
    /\ lastOp' = <<"setPlotWidth">>
    /\ before' = Snapshot
    /\ UNCHANGED <<newRoom, placed>>

\* onChange of the plot width field
setPlotWidth(v) ==
    /\ plotDimensions' = [plotDimensions EXCEPT !.width = v]
    /\ lastOp' = <<"setPlotWidth">>
    /\ before' = Snapshot
    /\ UNCHANGED <<rooms, newRoom, placed>>

\* a variant that spreads the old preferences under the rule's own
\* ({...newRoom.preferences, ...vastuRule.preferences})
handleRoomTypeChangeSpreading(type) ==
    /\ newRoom' =
         [ type |-> type,
           length |-> VASTU_RULES[type].defaultSize.length,
           width |-> VASTU_RULES[type].defaultSize.width,
           preferences |->
             [ flag \in DOMAIN newRoom.preferences |->
                 RulePreference(type, flag, newRoom.preferences[flag]) ] ]
    /\ lastOp' = <<"handleRoomTypeChange", type>>
    /\ before' = Snapshot
    /\ UNCHANGED <<plotDimensions, rooms, placed>>

handleRoomTypeChange(type) ==
    /\ newRoom' =
         [ type |-> type,
           length |-> VASTU_RULES[type].defaultSize.length,
           width |-> VASTU_RULES[type].defaultSize.width,
           preferences |->
             [ hasAttachedWashroom |-> RulePreference(type, "hasAttachedWashroom", FALSE),
               isOpen |-> RulePreference(type, "isOpen", FALSE),
               isInside |-> RulePreference(type, "isInside", TRUE),
               isCombined |-> RulePreference(type, "isCombined", FALSE) ] ]
    /\ lastOp' = <<"handleRoomTypeChange", type>>
    /\ before' = Snapshot
    /\ UNCHANGED <<plotDimensions, rooms, placed>>

\* onChange of the draft length field
setNewRoomLength(v) ==
    /\ newRoom' = [newRoom EXCEPT !.length = v]
    /\ lastOp' = <<"setNewRoomLength">>
    /\ before' = Snapshot
    /\ UNCHANGED <<plotDimensions, rooms, placed>>

\* onChange of the draft width field
setNewRoomWidth(v) ==
    /\ newRoom' = [newRoom EXCEPT !.width = v]
    /\ lastOp' = <<"setNewRoomWidth">>
    /\ before' = Snapshot
    /\ UNCHANGED <<plotDimensions, rooms, placed>>

\* is the checkbox of this flag rendered for the draft's type
CheckboxShown(flag) ==
    IF flag = "isCombined"
    THEN newRoom.type \in {"living_room", "dining_room"}
    ELSE RuleDeclares(newRoom.type, flag)

\* onChange of one of the four preference checkboxes; a click on a checkbox
\* hands the handler the negation of what the box showed
setPreference(flag, checked) ==
    /\ CheckboxShown(flag)
    /\ newRoom' = [newRoom EXCEPT !.preferences[flag] = checked]
    /\ lastOp' = <<"setPreference">>
    /\ before' = Snapshot
    /\ UNCHANGED <<plotDimensions, rooms, placed>>

\* a variant that numbers the rooms from 0
newIdFromZero == toString(Len(rooms))

\* addRoom: const id
newId == toString(Len(rooms) + 1)

\* addRoom: const position
newPosition ==
    getPositionForDirection(VASTU_RULES[newRoom.type].direction, plotDimensions,
                            [length |-> newRoom.length, width |-> newRoom.width])

\* addRoom: const room
draftedRoom(id, position) ==
    [ id |-> id,
      type |-> newRoom.type,
      size |-> [length |-> newRoom.length, width |-> newRoom.width],
      position |-> position,
      direction |-> VASTU_RULES[newRoom.type].direction,
      preferences |-> newRoom.preferences ]

\* a variant that keeps the size of the living room draft
combinedRoomOfDraftSize(id, position) ==
    [ id |-> id,
      type |-> "common_area",
      size |-> [length |-> newRoom.length, width |-> newRoom.width],
      position |-> position,
      direction |-> "north",
      preferences |-> [isCombined |-> TRUE] ]

\* addRoom: const combinedRoom
combinedRoom(id, position) ==
    [ id |-> id,
      type |-> "common_area",
      size |-> VASTU_RULES.common_area.defaultSize,
      position |-> position,
      direction |-> "north",
      preferences |-> [isCombined |-> TRUE] ]

\* a variant that places the washroom through the placement function
washroomPlaced(id, position) ==
    [ id |-> id \o "-washroom",
      type |-> "bathroom",
      size |-> VASTU_RULES.bathroom.defaultSize,
      position |-> getPositionForDirection("northwest", plotDimensions,
                                           VASTU_RULES.bathroom.defaultSize),
      direction |-> "northwest" ]

\* addRoom: const washroom (it has no preferences field)
washroom(id, position) ==
    [ id |-> id \o "-washroom",
      type |-> "bathroom",
      size |-> VASTU_RULES.bathroom.defaultSize,
      position |-> [x |-> position.x + newRoom.width, y |-> position.y],
      direction |-> "northwest" ]

\* a variant that asks the rule of the type instead of the draft
washroomWantedByRule == RulePreference(newRoom.type, "hasAttachedWashroom", FALSE)

\* addRoom: the condition of the washroom branch
washroomWanted == newRoom.preferences.hasAttachedWashroom

\* a variant that clears the form after the add: the draft goes back to the
\* defaults of its type
addRoomResettingDraft ==
    /\ rooms' =
         IF newRoom.type = "living_room" /\ newRoom.preferences.isCombined
         THEN rooms \o <<combinedRoom(newId, newPosition)>>
         ELSE IF washroomWanted
              THEN rooms \o <<draftedRoom(newId, newPosition), washroom(newId, newPosition)>>
              ELSE rooms \o <<draftedRoom(newId, newPosition)>>
    /\ newRoom' =
         [ type |-> newRoom.type,
           length |-> VASTU_RULES[newRoom.type].defaultSize.length,
           width |-> VASTU_RULES[newRoom.type].defaultSize.width,
           preferences |->
             [ hasAttachedWashroom |->
                   RulePreference(newRoom.type, "hasAttachedWashroom", FALSE),
               isOpen |-> RulePreference(newRoom.type, "isOpen", FALSE),
               isInside |-> RulePreference(newRoom.type, "isInside", TRUE),
               isCombined |-> RulePreference(newRoom.type, "isCombined", FALSE) ] ]
    /\ lastOp' = <<"addRoom">>
    /\ before' = Snapshot
    /\ UNCHANGED <<plotDimensions, placed>>

addRoom ==
    /\ rooms' =
         IF newRoom.type = "living_room" /\ newRoom.preferences.isCombined
         THEN rooms \o <<combinedRoom(newId, newPosition)>>
         ELSE IF washroomWanted
              THEN rooms \o <<draftedRoom(newId, newPosition), washroom(newId, newPosition)>>
              ELSE rooms \o <<draftedRoom(newId, newPosition)>>
    /\ lastOp' = <<"addRoom">>
    /\ before' = Snapshot
    /\ UNCHANGED <<plotDimensions, newRoom, placed>>

\* a variant that compares ids for equality
removeRoomExact(id) ==
    /\ LET Keep(room) == room.id # id
       IN  rooms' = SelectSeq(rooms, Keep)
    /\ lastOp' = <<"removeRoom", id>>
    /\ before' = Snapshot
    /\ UNCHANGED <<plotDimensions, newRoom, placed>>

\* a variant that calls startsWith the other way round
removeRoomSwapped(id) ==
    /\ LET Keep(room) == ~startsWith(id, room.id)
       IN  rooms' = SelectSeq(rooms, Keep)
    /\ lastOp' = <<"removeRoom", id>>
    /\ before' = Snapshot
    /\ UNCHANGED <<plotDimensions, newRoom, placed>>

removeRoom(id) ==
    /\ LET Keep(room) == ~startsWith(room.id, id)
       IN  rooms' = SelectSeq(rooms, Keep)
    /\ lastOp' = <<"removeRoom", id>>
    /\ before' = Snapshot
    /\ UNCHANGED <<plotDimensions, newRoom, placed>>

\* the ids on the Remove buttons of the room list
ListedIds == {rooms[i].id : i \in DOMAIN rooms}

-----------------------------------------------------------------------------
(* Specification of the whole form: every handler, a few handlers long *)

\* values typed into the numeric fields
PlotLengthInputs == {20}
PlotWidthInputs == {10}
RoomLengthInputs == {25}
RoomWidthInputs == {8}

Flags == {"hasAttachedWashroom", "isOpen", "isInside", "isCombined"}

\* a step that the specification counts, offered while fewer than max were taken
Counted(max) == count < max /\ count' = count + 1

Next ==
    \/ Counted(MaxSteps) /\ \E v \in PlotLengthInputs : setPlotLength(v)
    \/ Counted(MaxSteps) /\ \E v \in PlotWidthInputs : setPlotWidth(v)
    \/ Counted(MaxSteps) /\ \E type \in SelectableTypes : handleRoomTypeChange(type)
    \/ Counted(MaxSteps) /\ \E v \in RoomLengthInputs : setNewRoomLength(v)
    \/ Counted(MaxSteps) /\ \E v \in RoomWidthInputs : setNewRoomWidth(v)
    \/ Counted(MaxSteps) /\ \E flag \in Flags : setPreference(flag, ~newRoom.preferences[flag])
    \/ Counted(MaxSteps) /\ addRoom
    \/ Counted(MaxSteps) /\ \E id \in ListedIds : removeRoom(id)

Spec == Init /\ [][Next]_vars

-----------------------------------------------------------------------------
(* Specification of the registry alone: the draft is a master bedroom with *)
(* or without its washroom; rooms are added to a long registry and removed *)

NextIds ==
    \/ /\ setPreference("hasAttachedWashroom", ~newRoom.preferences.hasAttachedWashroom)
       /\ UNCHANGED count
    \/ /\ Len(rooms) < MaxIdRooms
       /\ addRoom
       /\ UNCHANGED count
    \/ Counted(MaxIdRemovals) /\ \E id \in ListedIds : removeRoom(id)

SpecIds == Init /\ [][NextIds]_vars

-----------------------------------------------------------------------------
(* Specification of the placement function on its own *)

Directions == { "north", "northeast", "east", "southeast",
                "south", "southwest", "west", "northwest" }
\* the recognised directions and two strings that are not directions
DirectionInputs == Directions \cup {"up", ""}
DimInputs == (0 .. MaxDim) \cup {12, 15, 30, 50}

\* the state after construction, with the arguments of one call drawn
InitPlace ==
    /\ InitState
    /\ placed \in [ called : {FALSE},
                    direction : DirectionInputs,
                    plot : [length : DimInputs, width : DimInputs],
                    roomSize : [length : DimInputs, width : DimInputs] ]

\* the call: placed gains the position that the function returns
callPlace ==
    /\ ~placed.called
    /\ placed' = [ called |-> TRUE,
                   direction |-> placed.direction,
                   plot |-> placed.plot,
                   roomSize |-> placed.roomSize,
                   position |-> getPositionForDirection(
                                    placed.direction, placed.plot, placed.roomSize) ]
    /\ UNCHANGED <<plotDimensions, rooms, newRoom, lastOp, before, count>>

NextPlace == callPlace

SpecPlace == InitPlace /\ [][NextPlace]_vars

-----------------------------------------------------------------------------
(* Properties.  before and lastOp let a state say what the last handler    *)
(* did: before is the program state it ran in.                             *)

\* the decimal numerals of 1, 2, ..., written out
Numerals == << "1", "2", "3", "4", "5", "6", "7", "8", "9", "10", "11", "12",
               "13", "14", "15", "16", "17", "18", "19", "20", "21", "22",
               "23", "24" >>

\* p is a leading part of s
IsPrefixOf(p, s) == \E k \in 1 .. Len(s) : SubSeq(s, 1, k) = p

\* q is the floor of n / 4
IsFloorOfQuarter(q, n) == 4 * q <= n /\ n < 4 * q + 4

\* the position the draft of the last addRoom is placed at
PlaceOfDraft ==
    getPositionForDirection(VASTU_RULES[before.newRoom.type].direction,
                            before.plotDimensions,
                            [ length |-> before.newRoom.length,
                              width |-> before.newRoom.width ])

\* the last addRoom took the combined branch
WasCombined ==
    before.newRoom.type = "living_room" /\ before.newRoom.preferences.isCombined

\* C1: called on its own, the placement function returns the pair of the
\* table of directions: x is floor(plot.width / 4) for north and south,
\* plot.width - room.width for the three western directions and 0 otherwise;
\* y is floor(plot.length / 4) for east and west, plot.length - room.length
\* for the three southern directions and 0 otherwise; a string that is no
\* direction gives (0, 0); nothing is clamped; and the two worked examples
\* come out as (7, 0) and (15, 38).
C1_PlacementTable ==
    placed.called =>
        LET d == placed.direction
            p == placed.plot
            r == placed.roomSize
            pos == placed.position
        IN  /\ DOMAIN pos = {"x", "y"}
            /\ IF d \in {"north", "south"} THEN IsFloorOfQuarter(pos.x, p.width)
               ELSE IF d \in {"northwest", "southwest", "west"}
                    THEN pos.x = p.width - r.width
                    ELSE pos.x = 0
            /\ IF d \in {"east", "west"} THEN IsFloorOfQuarter(pos.y, p.length)
               ELSE IF d \in {"southeast", "south", "southwest"}
                    THEN pos.y = p.length - r.length
                    ELSE pos.y = 0
            /\ ( d = "north" /\ p = [length |-> 50, width |-> 30]
                 /\ r = [length |-> 15, width |-> 12] ) => pos = [x |-> 7, y |-> 0]
            /\ ( d = "southwest" /\ p = [length |-> 50, width |-> 30]
                 /\ r = [length |-> 12, width |-> 15] ) => pos = [x |-> 15, y |-> 38]

\* a room larger than the plot was placed southwest, at negative coordinates
C1_Witness ==
    /\ placed.called
    /\ placed.direction = "southwest"
    /\ placed.roomSize.width > placed.plot.width
    /\ placed.roomSize.length > placed.plot.length
    /\ placed.position.x < 0
    /\ placed.position.y < 0

\* C2: an addRoom whose draft has hasAttachedWashroom set, and is not the
\* combined living room, appends exactly two rooms to the unchanged registry:
\* the drafted room, with the next id and the position the placement function
\* gives for the direction of its rule, and then a bathroom "<id>-washroom",
\* direction northwest, size (5, 5), at (parent.x + parent.width, parent.y).
C2_AttachedWashroom ==
    ( /\ lastOp = <<"addRoom">>
      /\ before.newRoom.preferences.hasAttachedWashroom
      /\ ~WasCombined ) =>
        LET n == Len(before.rooms)
            draft == before.newRoom
        IN  /\ Len(rooms) = n + 2
            /\ SubSeq(rooms, 1, n) = before.rooms
            /\ rooms[n + 1].id = Numerals[n + 1]
            /\ rooms[n + 1].type = draft.type
            /\ rooms[n + 1].size = [length |-> draft.length, width |-> draft.width]
            /\ rooms[n + 1].position = PlaceOfDraft
            /\ rooms[n + 2] =
                 [ id |-> Numerals[n + 1] \o "-washroom",
                   type |-> "bathroom",
                   direction |-> "northwest",
                   size |-> [length |-> 5, width |-> 5],
                   position |-> [ x |-> rooms[n + 1].position.x + rooms[n + 1].size.width,
                                  y |-> rooms[n + 1].position.y ] ]

\* a washroom was appended, behind a parent of an edited width, to a registry
\* that held rooms, at a place the placement function would not have given it
C2_Witness ==
    /\ lastOp = <<"addRoom">>
    /\ before.rooms # << >>
    /\ Len(rooms) = Len(before.rooms) + 2
    /\ rooms[Len(rooms)].type = "bathroom"
    /\ rooms[Len(rooms) - 1].size.width \in RoomWidthInputs
    /\ rooms[Len(rooms)].position #
         getPositionForDirection("northwest", plotDimensions, rooms[Len(rooms)].size)

\* C3: an addRoom whose draft is a living room with isCombined set appends
\* exactly one room to the unchanged registry: a common_area with the next
\* id, direction north, size (20, 15) whatever the draft's size, preferences
\* exactly {isCombined: true}, at (floor(plot.width / 4), 0).
C3_CombinedLivingRoom ==
    (lastOp = <<"addRoom">> /\ WasCombined) =>
        LET n == Len(before.rooms)
        IN  /\ Len(rooms) = n + 1
            /\ SubSeq(rooms, 1, n) = before.rooms
            /\ rooms[n + 1].id = Numerals[n + 1]
            /\ rooms[n + 1].type = "common_area"
            /\ rooms[n + 1].direction = "north"
            /\ rooms[n + 1].size = [length |-> 20, width |-> 15]
            /\ rooms[n + 1].preferences = [isCombined |-> TRUE]
            /\ IsFloorOfQuarter(rooms[n + 1].position.x, before.plotDimensions.width)
            /\ rooms[n + 1].position.y = 0
            /\ DOMAIN rooms[n + 1] =
                 {"id", "type", "size", "position", "direction", "preferences"}

\* a combined living room was added from a draft of an edited size, in a
\* plot of an edited width
C3_Witness ==
    /\ lastOp = <<"addRoom">>
    /\ WasCombined
    /\ newRoom.width \in RoomWidthInputs
    /\ newRoom.length \in RoomLengthInputs
    /\ plotDimensions.width \in PlotWidthInputs
    /\ rooms[Len(rooms)].type = "common_area"

\* the indices of the rooms of seq whose id does not start with id
KeptBy(seq, id) == {i \in DOMAIN seq : ~IsPrefixOf(id, seq[i].id)}

\* the j-th smallest member of a set of indices
NthOf(indices, j) ==
    CHOOSE i \in indices : Cardinality({k \in indices : k <= i}) = j

\* C4: removeRoom(id) leaves exactly the rooms whose id does not start with
\* id, in their order.
C4_RemoveByPrefix ==
    (Len(lastOp) = 2 /\ lastOp[1] = "removeRoom") =>
        LET kept == KeptBy(before.rooms, lastOp[2])
        IN  /\ Len(rooms) = Cardinality(kept)
            /\ \A j \in DOMAIN rooms : rooms[j] = before.rooms[NthOf(kept, j)]

\* removeRoom("1") took out "1", its washroom "1-washroom" and the unrelated
\* "10", and left other rooms
C4_Witness ==
    /\ lastOp = <<"removeRoom", "1">>
    /\ {"1", "1-washroom", "10"} \subseteq
         {before.rooms[i].id : i \in DOMAIN before.rooms}
    /\ rooms # << >>
    /\ \A i \in DOMAIN rooms : rooms[i].id \notin {"1", "1-washroom", "10"}

\* C5: no two rooms of the registry have the same id.
C5_UniqueIds ==
    \A i, j \in DOMAIN rooms : i # j => rooms[i].id # rooms[j].id

\* the draft that selecting each type must give: the size of its rule, the
\* flags its rule declares, and false, false, true, false for the others
ExpectedDraft ==
    [ master_bedroom |->
        [ type |-> "master_bedroom", length |-> 12, width |-> 15,
          preferences |-> [ hasAttachedWashroom |-> TRUE, isOpen |-> FALSE,
                            isInside |-> TRUE, isCombined |-> FALSE ] ],
      bedroom |->
        [ type |-> "bedroom", length |-> 10, width |-> 12,
          preferences |-> [ hasAttachedWashroom |-> FALSE, isOpen |-> FALSE,
                            isInside |-> TRUE, isCombined |-> FALSE ] ],
      kitchen |->
        [ type |-> "kitchen", length |-> 8, width |-> 10,
          preferences |-> [ hasAttachedWashroom |-> FALSE, isOpen |-> FALSE,
                            isInside |-> TRUE, isCombined |-> FALSE ] ],
      pooja_room |->
        [ type |-> "pooja_room", length |-> 6, width |-> 6,
          preferences |-> [ hasAttachedWashroom |-> FALSE, isOpen |-> FALSE,
                            isInside |-> TRUE, isCombined |-> FALSE ] ],
      bathroom |->
        [ type |-> "bathroom", length |-> 5, width |-> 5,
          preferences |-> [ hasAttachedWashroom |-> FALSE, isOpen |-> FALSE,
                            isInside |-> TRUE, isCombined |-> FALSE ] ],
      living_room |->
        [ type |-> "living_room", length |-> 15, width |-> 12,
          preferences |-> [ hasAttachedWashroom |-> FALSE, isOpen |-> FALSE,
                            isInside |-> TRUE, isCombined |-> FALSE ] ],
      dining_room |->
        [ type |-> "dining_room", length |-> 10, width |-> 12,
          preferences |-> [ hasAttachedWashroom |-> FALSE, isOpen |-> FALSE,
                            isInside |-> TRUE, isCombined |-> FALSE ] ],
      staircase |->
        [ type |-> "staircase", length |-> 6, width |-> 10,
          preferences |-> [ hasAttachedWashroom |-> FALSE, isOpen |-> FALSE,
                            isInside |-> TRUE, isCombined |-> FALSE ] ] ]

\* C6: selecting a type sets the draft to that type, the default size of its
\* rule and the flags of its rule (false, false, true, false where the rule
\* is silent), whatever the draft held, and leaves registry and plot alone.
C6_SelectResetsDraft ==
    (Len(lastOp) = 2 /\ lastOp[1] = "handleRoomTypeChange") =>
        /\ lastOp[2] \in DOMAIN ExpectedDraft
        /\ newRoom = ExpectedDraft[lastOp[2]]
        /\ rooms = before.rooms
        /\ plotDimensions = before.plotDimensions

\* the dining room was selected over a living room draft that had isCombined
\* set and both sizes edited; none of that is left
C6_Witness ==
    /\ lastOp = <<"handleRoomTypeChange", "dining_room">>
    /\ before.newRoom.type = "living_room"
    /\ before.newRoom.preferences.isCombined
    /\ before.newRoom.length \in RoomLengthInputs
    /\ before.newRoom.width \in RoomWidthInputs
    /\ ~newRoom.preferences.isCombined
    /\ newRoom.length \notin RoomLengthInputs
    /\ newRoom.width \notin RoomWidthInputs

\* a is b with some of its members left out
RECURSIVE IsSubsequence(_, _)
IsSubsequence(a, b) ==
    IF a = << >> THEN TRUE
    ELSE IF b = << >> THEN FALSE
    ELSE IF Head(a) = Head(b) THEN IsSubsequence(Tail(a), Tail(b))
    ELSE IsSubsequence(a, Tail(b))

\* C7: no handler changes a room of the registry: a change of the plot leaves
\* registry and draft as they were, every handler but removeRoom leaves the
\* old registry as the leading part of the new one, and removeRoom leaves
\* some of the old rooms, each as it was and in the old order.
C7_RoomsNeverMutated ==
    /\ lastOp[1] \in {"setPlotLength", "setPlotWidth"} =>
         rooms = before.rooms /\ newRoom = before.newRoom
    /\ lastOp[1] # "removeRoom" =>
         /\ Len(before.rooms) <= Len(rooms)
         /\ SubSeq(rooms, 1, Len(before.rooms)) = before.rooms
    /\ lastOp[1] = "removeRoom" => IsSubsequence(rooms, before.rooms)

\* the plot was made narrower than a room of the registry reaches
C7_Witness ==
    /\ lastOp = <<"setPlotWidth">>
    /\ plotDimensions # before.plotDimensions
    /\ \E i \in DOMAIN rooms :
         rooms[i].position.x + rooms[i].size.width > plotDimensions.width

\* the room the last addRoom committed
Committed == rooms[Len(before.rooms) + 1]

\* the last addRoom appended, behind the room it committed, that room's
\* washroom and nothing else
DependentSpawned ==
    /\ Len(rooms) = Len(before.rooms) + 2
    /\ rooms[Len(rooms)].type = "bathroom"
    /\ rooms[Len(rooms)].id = Committed.id \o "-washroom"
    /\ "preferences" \notin DOMAIN rooms[Len(rooms)]

\* C8 as stated: the rule of the committed room's type (hasAttachedWashroom
\* is true for master_bedroom alone) decides whether a washroom is spawned.
C8_RuleDecides ==
    lastOp = <<"addRoom">> =>
        IF Committed.type = "master_bedroom"
        THEN DependentSpawned
        ELSE Len(rooms) = Len(before.rooms) + 1

\* C8, amended: the committed room's own hasAttachedWashroom preference, the
\* checkbox of the draft, decides: with it set, the room is followed by the
\* bathroom "<id>-washroom", which has no preferences and no dependent of its
\* own; without it (the combined common_area included) nothing follows.
C8_DraftDecides ==
    lastOp = <<"addRoom">> =>
        IF /\ "hasAttachedWashroom" \in DOMAIN Committed.preferences
           /\ Committed.preferences.hasAttachedWashroom
        THEN DependentSpawned
        ELSE Len(rooms) = Len(before.rooms) + 1

\* a bedroom, whose rule says false, was committed with the box ticked and
\* got its washroom
C8_Witness ==
    /\ lastOp = <<"addRoom">>
    /\ Committed.type = "bedroom"
    /\ Committed.preferences.hasAttachedWashroom
    /\ DependentSpawned

\* C9: addRoom gives the room it commits the decimal numeral of the number
\* of rooms in the registry plus one, whatever ids the registry holds.
C9_IdIsCountPlusOne ==
    lastOp = <<"addRoom">> =>
        /\ Len(rooms) > Len(before.rooms)
        /\ Committed.id = Numerals[Len(before.rooms) + 1]

\* after a removal a room was added under an id that the registry already
\* held, that is the leading part of another room's id, and that starts with
\* the id of a third room
C9_Witness ==
    /\ lastOp = <<"addRoom">>
    /\ count > 0
    /\ \E i, j, k \in DOMAIN before.rooms :
         /\ before.rooms[i].id = Committed.id
         /\ before.rooms[j].id # Committed.id
         /\ IsPrefixOf(Committed.id, before.rooms[j].id)
         /\ before.rooms[k].id # Committed.id
         /\ IsPrefixOf(before.rooms[k].id, Committed.id)

\* the id is "<p>-washroom" for some p
IsWashroomId(id) ==
    Len(id) > 9 /\ SubSeq(id, Len(id) - 8, Len(id)) = "-washroom"

\* the p of "<p>-washroom"
ParentId(id) == SubSeq(id, 1, Len(id) - 9)

\* C10: every room "<p>-washroom" of the registry has a room "<p>" before it.
C10_NoOrphanWashroom ==
    \A i \in DOMAIN rooms :
        IsWashroomId(rooms[i].id) =>
            \E j \in 1 .. (i - 1) : rooms[j].id = ParentId(rooms[i].id)

\* a washroom was removed by its own id: its parent is still there, without
\* it, next to another room that still has its washroom
C10_Witness ==
    /\ Len(lastOp) = 2
    /\ lastOp[1] = "removeRoom"
    /\ IsWashroomId(lastOp[2])
    /\ \E i \in DOMAIN rooms : rooms[i].id = ParentId(lastOp[2])
    /\ \A i \in DOMAIN rooms : rooms[i].id # lastOp[2]
    /\ \E i \in DOMAIN rooms : IsWashroomId(rooms[i].id)

\* C11: addRoom only appends: the old registry is the leading part of the
\* new one, which is longer by one room or by two; the draft and the plot
\* stay as they were; and an addRoom that follows an addRoom directly
\* commits a room of the same type, size and position as the one before.
C11_AddOnlyAppends ==
    [][ lastOp' = <<"addRoom">> =>
          /\ Len(rooms') - Len(rooms) \in {1, 2}
          /\ SubSeq(rooms', 1, Len(rooms)) = rooms
          /\ newRoom' = newRoom
          /\ plotDimensions' = plotDimensions
          /\ lastOp = <<"addRoom">> =>
               /\ rooms'[Len(rooms) + 1].type = Committed.type
               /\ rooms'[Len(rooms) + 1].size = Committed.size
               /\ rooms'[Len(rooms) + 1].position = Committed.position
               /\ Len(rooms') - Len(rooms) = Len(rooms) - Len(before.rooms)
      ]_vars

\* four handlers ran: the plot width and the draft width were edited and
\* then addRoom ran twice in a row, each time committing a room of the edited
\* width at the same place, with its washroom, under different ids
C11_Witness ==
    /\ lastOp = <<"addRoom">>
    /\ count = 4
    /\ Len(before.rooms) = 2
    /\ Len(rooms) = 4
    /\ plotDimensions.width \in PlotWidthInputs
    /\ newRoom.width \in RoomWidthInputs
    /\ rooms[1].size.width \in RoomWidthInputs
    /\ rooms[1].position.x = plotDimensions.width - newRoom.width
    /\ rooms[3].type = rooms[1].type
    /\ rooms[3].size = rooms[1].size
    /\ rooms[3].position = rooms[1].position
    /\ rooms[3].id # rooms[1].id
    /\ newRoom = before.newRoom
====
